---- MODULE Spec2Model ----
(***************************************************************************)
(* Model of the two Dash dashboards of this repository:                    *)
(*   scripts/AutomobileSalesDashboard.py and scripts/SpaceXLaunchDashboard.py *)
(*                                                                         *)
(* A run of the model is a run of one of the two scripts.  The state is    *)
(* the parsed CSV payload, the module-level dataframe df, the component    *)
(* tree app.layout (component id -> properties) and the set of callbacks   *)
(* the framework still has to invoke for the latest input change.          *)
(*                                                                         *)
(* Representation choices:                                                 *)
(*   - a dataframe is a sequence of rows, a row is a function from column  *)
(*     names to values;                                                    *)
(*   - the result of groupby(key)[col].agg().reset_index() is a function   *)
(*     from the group keys that occur to the aggregated value;             *)
(*   - a mean is the reduced fraction <<numerator, denominator>>;          *)
(*   - None is the string "None" for string-valued properties; the value   *)
(*     of the year dropdown is a set of at most one year ({} is None).     *)
(***************************************************************************)
EXTENDS Integers, Sequences, FiniteSets, TLC

VARIABLES script, csv, df, layout, pending

vars == <<script, csv, df, layout, pending>>

None == "None"

(* ---------------------------- bounds ------------------------------------ *)

MaxSalesRows == 2
MaxLaunchRows == 2

(* ------------------------ generic helpers ------------------------------- *)

RECURSIVE GCD(_, _)
GCD(a, b) == IF b = 0 THEN a ELSE GCD(b, a % b)

SeqsUpTo(S, n) == UNION {[1..k -> S] : k \in 1..n}

Column(rows, col) == {rows[i][col] : i \in DOMAIN rows}

RECURSIVE SumCol(_, _)
SumCol(rows, col) ==
    IF rows = <<>> THEN 0 ELSE rows[1][col] + SumCol(Tail(rows), col)

MeanCol(rows, col) ==
    LET s == SumCol(rows, col)
        n == Len(rows)
        g == GCD(s, n)
    IN  <<s \div g, n \div g>>

RowsWhere(rows, col, v) == SelectSeq(rows, LAMBDA r : r[col] = v)

GroupBySum(rows, key, col) ==
    [k \in Column(rows, key) |-> SumCol(RowsWhere(rows, key, k), col)]

GroupByMean(rows, key, col) ==
    [k \in Column(rows, key) |-> MeanCol(RowsWhere(rows, key, k), col)]

GroupByAggMean(rows, key, cols) ==
    [k \in Column(rows, key) |->
        [c \in cols |-> MeanCol(RowsWhere(rows, key, k), c)]]

Figure(chart, data, title) ==
    [chart |-> chart, data |-> data, title |-> title, layout |-> <<>>]

update_layout(fig, props) == [fig EXCEPT !.layout = props]

(* ================= AutomobileSalesDashboard.py ========================== *)

YearLo == 1980
YearHi == 2013

SalesRow(y, m, s, t, a, r, u) ==
    [Year |-> y, Month |-> m, Automobile_Sales |-> s, Vehicle_Type |-> t,
     Advertising_Expenditure |-> a, Recession |-> r, unemployment_rate |-> u]

SalesCSVRows ==
    { SalesRow(1979, "Dec", 70, "Sports", 7, 0, 41),
      SalesRow(1980, "Jan", 100, "Sports", 10, 1, 54),
      SalesRow(1980, "Jan", 201, "Family", 20, 0, 30),
      SalesRow(1980, "Feb", 50, "Sports", 5, 1, 71),
      SalesRow(2013, "Jan", 300, "Family", 30, 1, 60),
      SalesRow(2014, "Jan", 90, "Family", 9, 1, 55) }

YearFilter_exclusive(rows) ==
    SelectSeq(rows, LAMBDA r : r.Year > YearLo /\ r.Year < YearHi)

YearFilter(rows) ==
    SelectSeq(rows, LAMBDA r : r.Year >= YearLo /\ r.Year <= YearHi)

RECURSIVE Sorted(_)
Sorted(S) ==
    IF S = {} THEN <<>>
    ELSE LET m == CHOOSE x \in S : \A y \in S : x <= y
         IN  <<m>> \o Sorted(S \ {m})

year_options(rows) ==
    LET ys == Sorted(Column(rows, "Year"))
    IN  [i \in DOMAIN ys |-> [label |-> ToString(ys[i]), value |-> ys[i]]]

SalesLayout(rows) ==
    [id \in {"report-type", "year-dropdown", "output-container"} |->
        CASE id = "report-type" ->
                [options |-> << [label |-> "Yearly Statistics", value |-> "yearly"],
                                [label |-> "Recession Period Statistics",
                                 value |-> "recession"] >>,
                 value |-> "yearly",
                 style |-> [width |-> "100%", marginBottom |-> "10px"]]
          [] id = "year-dropdown" ->
                [options |-> year_options(rows),
                 value |-> {1980},
                 style |-> [width |-> "100%"],
                 disabled |-> FALSE]
          [] id = "output-container" ->
                [children |-> <<>>,
                 style |-> [width |-> "80%", margin |-> "auto"]]]

SalesCallbacks == {"update_year_dropdown", "update_output"}

update_year_dropdown_inverted(report_type) ==
    IF report_type = "yearly" THEN TRUE ELSE FALSE

update_year_dropdown(report_type) ==
    IF report_type = "yearly" THEN FALSE ELSE TRUE

YearStr(selected_year) ==
    IF selected_year = {} THEN "None"
    ELSE ToString(CHOOSE y \in selected_year : TRUE)

YearRows(rows, selected_year) ==
    SelectSeq(rows, LAMBDA r : r.Year \in selected_year)

RecessionRows_unfiltered(rows) == rows

RecessionRows(rows) == SelectSeq(rows, LAMBDA r : r.Recession = 1)

SalesFigLayout ==
    [font_family |-> "Segoe UI", title_font_size |-> 20,
     xaxis_title_font_size |-> 14, yaxis_title_font_size |-> 14,
     title_x |-> "0.5"]

YearlyFigures_filtered_trend(rows, selected_year) ==
    LET yearly_sales ==
            GroupByMean(YearRows(rows, selected_year), "Year", "Automobile_Sales")
        monthly_sales ==
            GroupBySum(YearRows(rows, selected_year), "Month", "Automobile_Sales")
        avg_sales_by_type ==
            GroupByMean(YearRows(rows, selected_year), "Vehicle_Type",
                        "Automobile_Sales")
        ad_exp_by_type ==
            GroupBySum(YearRows(rows, selected_year), "Vehicle_Type",
                       "Advertising_Expenditure")
    IN << Figure("line", yearly_sales,
                 "Average Automobile Sales per Year (1980-2013)"),
          Figure("line", monthly_sales,
                 "Total Monthly Automobile Sales in " \o YearStr(selected_year)),
          Figure("bar", avg_sales_by_type,
                 "Average Vehicles Sold by Vehicle Type in "
                    \o YearStr(selected_year)),
          Figure("pie", ad_exp_by_type,
                 "Total Advertising Expenditure by Vehicle Type in "
                    \o YearStr(selected_year)) >>

YearlyFigures(rows, selected_year) ==
    LET yearly_sales == GroupByMean(rows, "Year", "Automobile_Sales")
        monthly_sales ==
            GroupBySum(YearRows(rows, selected_year), "Month", "Automobile_Sales")
        avg_sales_by_type ==
            GroupByMean(YearRows(rows, selected_year), "Vehicle_Type",
                        "Automobile_Sales")
        ad_exp_by_type ==
            GroupBySum(YearRows(rows, selected_year), "Vehicle_Type",
                       "Advertising_Expenditure")
    IN << Figure("line", yearly_sales,
                 "Average Automobile Sales per Year (1980-2013)"),
          Figure("line", monthly_sales,
                 "Total Monthly Automobile Sales in " \o YearStr(selected_year)),
          Figure("bar", avg_sales_by_type,
                 "Average Vehicles Sold by Vehicle Type in "
                    \o YearStr(selected_year)),
          Figure("pie", ad_exp_by_type,
                 "Total Advertising Expenditure by Vehicle Type in "
                    \o YearStr(selected_year)) >>

RecessionFigures(rows) ==
    LET recession_df == RecessionRows(rows)
        recession_sales == GroupByMean(recession_df, "Year", "Automobile_Sales")
        avg_sales_by_type ==
            GroupByMean(recession_df, "Vehicle_Type", "Automobile_Sales")
        ad_exp_by_type ==
            GroupBySum(recession_df, "Vehicle_Type", "Advertising_Expenditure")
        avg_unemp_sales ==
            GroupByAggMean(recession_df, "Vehicle_Type",
                           {"unemployment_rate", "Automobile_Sales"})
    IN << Figure("line", recession_sales,
                 "Average Automobile Sales During Recession Periods"),
          Figure("bar", avg_sales_by_type,
                 "Average Vehicles Sold by Vehicle Type During Recessions"),
          Figure("pie", ad_exp_by_type,
                 "Advertising Expenditure Share by Vehicle Type During Recessions"),
          Figure("bar", avg_unemp_sales,
                 "Effect of Unemployment Rate on Vehicle Sales During Recessions") >>

update_output(rows, report_type, selected_year) ==
    LET figs == IF report_type = "yearly"
                THEN YearlyFigures(rows, selected_year)
                ELSE RecessionFigures(rows)
    IN  [i \in 1..4 |-> update_layout(figs[i], SalesFigLayout)]

SalesInit ==
    /\ script = "AutomobileSalesDashboard"
    /\ csv \in SeqsUpTo(SalesCSVRows, MaxSalesRows)
    /\ df = YearFilter(csv)
    /\ layout = SalesLayout(df)
    /\ pending = SalesCallbacks

ReportTypeInputs == {"yearly", "recession", None}

SelectReportType ==
    /\ script = "AutomobileSalesDashboard"
    /\ \E v \in ReportTypeInputs :
        /\ v # layout["report-type"].value
        /\ layout' = [layout EXCEPT !["report-type"].value = v]
    /\ pending' = pending \cup {"update_year_dropdown", "update_output"}
    /\ UNCHANGED <<script, csv, df>>

YearInputs ==
    {{}} \cup {{layout["year-dropdown"].options[i].value} :
                    i \in DOMAIN layout["year-dropdown"].options}

SelectYear ==
    /\ script = "AutomobileSalesDashboard"
    /\ layout["year-dropdown"].disabled = FALSE
    /\ \E v \in YearInputs :
        /\ v # layout["year-dropdown"].value
        /\ layout' = [layout EXCEPT !["year-dropdown"].value = v]
    /\ pending' = pending \cup {"update_output"}
    /\ UNCHANGED <<script, csv, df>>

Callback_update_year_dropdown ==
    /\ script = "AutomobileSalesDashboard"
    /\ "update_year_dropdown" \in pending
    /\ layout' = [layout EXCEPT !["year-dropdown"].disabled =
                        update_year_dropdown(layout["report-type"].value)]
    /\ pending' = pending \ {"update_year_dropdown"}
    /\ UNCHANGED <<script, csv, df>>

Callback_update_output ==
    /\ script = "AutomobileSalesDashboard"
    /\ "update_output" \in pending
    /\ layout' = [layout EXCEPT !["output-container"].children =
                        update_output(df, layout["report-type"].value,
                                      layout["year-dropdown"].value)]
    /\ pending' = pending \ {"update_output"}
    /\ UNCHANGED <<script, csv, df>>

SalesNext ==
    \/ SelectReportType
    \/ SelectYear
    \/ Callback_update_year_dropdown
    \/ Callback_update_output

(* =================== SpaceXLaunchDashboard.py =========================== *)

LaunchCSVRow(site, mass, cls, booster) ==
    [c \in {"Launch Site", "Payload Mass (kg)", "class",
            "Booster Version Category"} |->
        CASE c = "Launch Site" -> site
          [] c = "Payload Mass (kg)" -> mass
          [] c = "class" -> cls
          [] c = "Booster Version Category" -> booster]

LaunchCSVRows ==
    { LaunchCSVRow("CCAFS LC-40", 0, 0, "v1.0"),
      LaunchCSVRow("CCAFS LC-40", 3000, 1, "FT"),
      LaunchCSVRow("KSC LC-39A", 2500, 0, "v1.1"),
      LaunchCSVRow("KSC LC-39A", 9600, 1, "FT") }

RenameColumn(r, old, new) ==
    [c \in (DOMAIN r \ {old}) \cup {new} |-> IF c = new THEN r[old] ELSE r[c]]

Rename(rows) ==
    [i \in DOMAIN rows |-> RenameColumn(rows[i], "Payload Mass (kg)", "PayloadMass")]

max_payload(rows) ==
    CHOOSE m \in Column(rows, "PayloadMass") :
        \A x \in Column(rows, "PayloadMass") : x <= m

min_payload(rows) ==
    CHOOSE m \in Column(rows, "PayloadMass") :
        \A x \in Column(rows, "PayloadMass") : m <= x

SliderMin == 0
SliderMax == 10000
SliderStep == 1000

SiteOptions ==
    << [label |-> "All Sites", value |-> "ALL"],
       [label |-> "CCAFS LC-40", value |-> "CCAFS LC-40"],
       [label |-> "VAFB SLC-4E", value |-> "VAFB SLC-4E"],
       [label |-> "KSC LC-39A", value |-> "KSC LC-39A"],
       [label |-> "CCAFS SLC-40", value |-> "CCAFS SLC-40"] >>

NoFigure == Figure("none", <<>>, "")

LaunchLayout_dataset_bounds(rows) ==
    [id \in {"site-dropdown", "success-pie-chart", "payload-slider",
             "success-payload-scatter-chart"} |->
        CASE id = "site-dropdown" ->
                [options |-> SiteOptions, value |-> "ALL"]
          [] id = "success-pie-chart" -> [figure |-> NoFigure]
          [] id = "payload-slider" ->
                [min |-> min_payload(rows), max |-> max_payload(rows),
                 step |-> SliderStep,
                 value |-> <<min_payload(rows), max_payload(rows)>>]
          [] id = "success-payload-scatter-chart" -> [figure |-> NoFigure]]

LaunchLayout(rows) ==
    [id \in {"site-dropdown", "success-pie-chart", "payload-slider",
             "success-payload-scatter-chart"} |->
        CASE id = "site-dropdown" ->
                [options |-> SiteOptions, value |-> "ALL"]
          [] id = "success-pie-chart" -> [figure |-> NoFigure]
          [] id = "payload-slider" ->
                [min |-> SliderMin, max |-> SliderMax, step |-> SliderStep,
                 value |-> <<min_payload(rows), max_payload(rows)>>]
          [] id = "success-payload-scatter-chart" -> [figure |-> NoFigure]]

LaunchCallbacks == {"get_pie_chart", "get_scatter_chart"}

px_pie_counts_rows(rows, values, names) ==
    [k \in Column(rows, names) |-> Len(RowsWhere(rows, names, k))]

px_pie(rows, values, names) == GroupBySum(rows, names, values)

GroupBySize(rows, keys) ==
    [k \in {[c \in keys |-> rows[i][c]] : i \in DOMAIN rows} |->
        Len(SelectSeq(rows, LAMBDA r : \A c \in keys : r[c] = k[c]))]

RECURSIVE TotalOver(_, _)
TotalOver(counts, K) ==
    IF K = {} THEN 0
    ELSE LET k == CHOOSE x \in K : TRUE
         IN  counts[k] + TotalOver(counts, K \ {k})

(* Slices are keyed by the text of their name, as the chart labels them. *)
ClassCountPie(counts) ==
    [c \in {ToString(k["class"]) : k \in DOMAIN counts} |->
        TotalOver(counts, {k \in DOMAIN counts : ToString(k["class"]) = c})]

get_pie_chart_unfiltered(rows, entered_site) ==
    LET fig ==
          IF entered_site = "ALL"
          THEN Figure("pie", px_pie(rows, "class", "Launch Site"),
                      "Total Success Launches By Site")
          ELSE LET class_count == GroupBySize(rows, {"Launch Site", "class"})
               IN  Figure("pie", ClassCountPie(class_count),
                          "Total Success Launches for site " \o entered_site)
    IN  update_layout(fig, [font_family |-> "Segoe UI"])

get_pie_chart(rows, entered_site) ==
    LET fig ==
          IF entered_site = "ALL"
          THEN Figure("pie", px_pie(rows, "class", "Launch Site"),
                      "Total Success Launches By Site")
          ELSE LET filtered_df == RowsWhere(rows, "Launch Site", entered_site)
                   class_count == GroupBySize(filtered_df, {"Launch Site", "class"})
               IN  Figure("pie", ClassCountPie(class_count),
                          "Total Success Launches for site " \o entered_site)
    IN  update_layout(fig, [font_family |-> "Segoe UI"])

PayloadFilter_exclusive(rows, payload_range) ==
    SelectSeq(rows, LAMBDA r : r["PayloadMass"] >= payload_range[1]
                               /\ r["PayloadMass"] < payload_range[2])

PayloadFilter(rows, payload_range) ==
    SelectSeq(rows, LAMBDA r : r["PayloadMass"] >= payload_range[1]
                               /\ r["PayloadMass"] <= payload_range[2])

get_scatter_chart(rows, entered_site, payload_range) ==
    LET filtered_df == PayloadFilter(rows, payload_range)
        fig ==
          IF entered_site = "ALL"
          THEN Figure("scatter", filtered_df,
                      "Payload vs. Launch Outcome for All Sites")
          ELSE Figure("scatter", RowsWhere(filtered_df, "Launch Site", entered_site),
                      "Payload vs. Launch Outcome for " \o entered_site)
    IN  update_layout(fig, [font_family |-> "Segoe UI"])

LaunchInit ==
    /\ script = "SpaceXLaunchDashboard"
    /\ csv \in SeqsUpTo(LaunchCSVRows, MaxLaunchRows)
    /\ df = Rename(csv)
    /\ layout = LaunchLayout(df)
    /\ pending = LaunchCallbacks

SiteInputs == {SiteOptions[i].value : i \in DOMAIN SiteOptions} \cup {None}

SelectSite ==
    /\ script = "SpaceXLaunchDashboard"
    /\ \E v \in SiteInputs :
        /\ v # layout["site-dropdown"].value
        /\ layout' = [layout EXCEPT !["site-dropdown"].value = v]
    /\ pending' = pending \cup {"get_pie_chart", "get_scatter_chart"}
    /\ UNCHANGED <<script, csv, df>>

SliderStops ==
    {x \in {0, 3000, 10000} :
        /\ layout["payload-slider"].min <= x
        /\ x <= layout["payload-slider"].max
        /\ (x - layout["payload-slider"].min) % layout["payload-slider"].step = 0}

MoveSlider ==
    /\ script = "SpaceXLaunchDashboard"
    /\ \E lo \in SliderStops, hi \in SliderStops :
        /\ lo <= hi
        /\ <<lo, hi>> # layout["payload-slider"].value
        /\ layout' = [layout EXCEPT !["payload-slider"].value = <<lo, hi>>]
    /\ pending' = pending \cup {"get_scatter_chart"}
    /\ UNCHANGED <<script, csv, df>>

Callback_get_pie_chart_filters_in_place ==
    /\ script = "SpaceXLaunchDashboard"
    /\ "get_pie_chart" \in pending
    /\ layout' = [layout EXCEPT !["success-pie-chart"].figure =
                        get_pie_chart(df, layout["site-dropdown"].value)]
    /\ df' = IF layout["site-dropdown"].value = "ALL" THEN df
             ELSE RowsWhere(df, "Launch Site", layout["site-dropdown"].value)
    /\ pending' = pending \ {"get_pie_chart"}
    /\ UNCHANGED <<script, csv>>

Callback_get_pie_chart ==
    /\ script = "SpaceXLaunchDashboard"
    /\ "get_pie_chart" \in pending
    /\ layout' = [layout EXCEPT !["success-pie-chart"].figure =
                        get_pie_chart(df, layout["site-dropdown"].value)]
    /\ pending' = pending \ {"get_pie_chart"}
    /\ UNCHANGED <<script, csv, df>>

Callback_get_scatter_chart_resets_slider ==
    /\ script = "SpaceXLaunchDashboard"
    /\ "get_scatter_chart" \in pending
    /\ layout' = [layout EXCEPT
            !["success-payload-scatter-chart"].figure =
                get_scatter_chart(df, layout["site-dropdown"].value,
                                  layout["payload-slider"].value),
            !["payload-slider"].value = <<min_payload(df), max_payload(df)>>]
    /\ pending' = pending \ {"get_scatter_chart"}
    /\ UNCHANGED <<script, csv, df>>

Callback_get_scatter_chart ==
    /\ script = "SpaceXLaunchDashboard"
    /\ "get_scatter_chart" \in pending
    /\ layout' = [layout EXCEPT !["success-payload-scatter-chart"].figure =
                        get_scatter_chart(df, layout["site-dropdown"].value,
                                          layout["payload-slider"].value)]
    /\ pending' = pending \ {"get_scatter_chart"}
    /\ UNCHANGED <<script, csv, df>>

LaunchNext ==
    \/ SelectSite
    \/ MoveSlider
    \/ Callback_get_pie_chart
    \/ Callback_get_scatter_chart

(* ========================== specification =============================== *)

Init == SalesInit \/ LaunchInit

Next == SalesNext \/ LaunchNext

Spec == Init /\ [][Next]_vars

(* ============================ properties ================================ *)

IsSales == script = "AutomobileSalesDashboard"
IsLaunch == script = "SpaceXLaunchDashboard"

(* Reference aggregations, stated over index sets of df. *)

RowIdx(col, v) == {i \in DOMAIN df : df[i][col] = v}

RECURSIVE RefSum(_, _)
RefSum(I, col) ==
    IF I = {} THEN 0
    ELSE LET i == CHOOSE x \in I : TRUE
         IN  df[i][col] + RefSum(I \ {i}, col)

RECURSIVE RefTotal(_)
RefTotal(f) ==
    IF DOMAIN f = {} THEN 0
    ELSE LET k == CHOOSE x \in DOMAIN f : TRUE
         IN  f[k] + RefTotal([j \in DOMAIN f \ {k} |-> f[j]])

IsMeanOver(v, I, col) ==
    /\ v[2] > 0
    /\ v[1] * Cardinality(I) = v[2] * RefSum(I, col)

IsMeanBy(data, I, key, col) ==
    /\ DOMAIN data = {df[i][key] : i \in I}
    /\ \A k \in DOMAIN data :
            IsMeanOver(data[k], {i \in I : df[i][key] = k}, col)

IsSumBy(data, I, key, col) ==
    /\ DOMAIN data = {df[i][key] : i \in I}
    /\ \A k \in DOMAIN data : data[k] = RefSum({i \in I : df[i][key] = k}, col)

Occurrences(rows, r) == Cardinality({i \in DOMAIN rows : rows[i] = r})

children == layout["output-container"].children
pie_figure == layout["success-pie-chart"].figure
scatter_figure == layout["success-payload-scatter-chart"].figure

(* C1: once update_year_dropdown has run for the latest report-type
   selection, the year dropdown is disabled exactly when the report type is
   not 'yearly'; the freshly built layout has it enabled with report type
   'yearly'; the dropdown stays in the layout and is never hidden. *)
C1_YearDropdownDisabledIffNotYearly ==
    IsSales =>
        /\ "year-dropdown" \in DOMAIN layout
        /\ "display" \notin DOMAIN layout["year-dropdown"].style
        /\ layout["year-dropdown"].disabled \in BOOLEAN
        /\ "update_year_dropdown" \notin pending =>
                (layout["year-dropdown"].disabled = TRUE
                    <=> layout["report-type"].value # "yearly")
        /\ layout = SalesLayout(df) =>
                /\ layout["year-dropdown"].disabled = FALSE
                /\ layout["report-type"].value = "yearly"

C1_Witness ==
    /\ IsSales
    /\ "update_year_dropdown" \notin pending
    /\ layout["report-type"].value = "recession"
    /\ layout["year-dropdown"].disabled = TRUE

(* C2: with report type 'recession', each of the four charts update_output
   returns is the aggregation over exactly the rows with Recession = 1: mean
   sales by year, mean sales by vehicle type, summed advertising expenditure
   by vehicle type, and mean sales and mean unemployment rate by vehicle
   type; no row with Recession = 0 contributes a group or a value. *)
C2_RecessionOnlyRecessionRows ==
    (IsSales /\ "update_output" \notin pending
        /\ layout["report-type"].value = "recession") =>
        LET R == RowIdx("Recession", 1)
        IN  /\ Len(children) = 4
            /\ IsMeanBy(children[1].data, R, "Year", "Automobile_Sales")
            /\ IsMeanBy(children[2].data, R, "Vehicle_Type", "Automobile_Sales")
            /\ IsSumBy(children[3].data, R, "Vehicle_Type",
                       "Advertising_Expenditure")
            /\ DOMAIN children[4].data = {df[i].Vehicle_Type : i \in R}
            /\ \A t \in DOMAIN children[4].data :
                  LET G == {i \in R : df[i].Vehicle_Type = t}
                  IN  /\ IsMeanOver(children[4].data[t].Automobile_Sales, G,
                                    "Automobile_Sales")
                      /\ IsMeanOver(children[4].data[t].unemployment_rate, G,
                                    "unemployment_rate")

C2_Witness ==
    /\ IsSales
    /\ "update_output" \notin pending
    /\ layout["report-type"].value = "recession"
    /\ \E i, j \in DOMAIN df :
            /\ df[i].Recession = 0
            /\ df[j].Recession = 1
            /\ df[i].Year = df[j].Year
    /\ Len(children) = 4
    /\ DOMAIN children[2].data # {}

(* C3 as stated: with site 'ALL' the per-site totals of the pie sum to the
   full row count of the launch dataset. *)
C3_PieAllSumsToRowCount ==
    (IsLaunch /\ "get_pie_chart" \notin pending
        /\ layout["site-dropdown"].value = "ALL") =>
        RefTotal(pie_figure.data) = Len(df)

(* C3 amended: with site 'ALL' the pie has one slice per launch site of the
   dataset whose value is the number of that site's rows with class = 1, and
   the slices sum to the number of rows with class = 1. *)
C3_PieAllSumsToSuccessCount ==
    (IsLaunch /\ "get_pie_chart" \notin pending
        /\ layout["site-dropdown"].value = "ALL") =>
        /\ DOMAIN pie_figure.data = {df[i]["Launch Site"] : i \in DOMAIN df}
        /\ \A s \in DOMAIN pie_figure.data :
                pie_figure.data[s] =
                    Cardinality(RowIdx("Launch Site", s) \cap RowIdx("class", 1))
        /\ RefTotal(pie_figure.data) = Cardinality(RowIdx("class", 1))

C3_Witness ==
    /\ IsLaunch
    /\ "get_pie_chart" \notin pending
    /\ layout["site-dropdown"].value = "ALL"
    /\ pie_figure.chart = "pie"
    /\ RowIdx("class", 0) # {}
    /\ RowIdx("class", 1) # {}

(* C4: with one specific site selected the pie is built from that site's rows
   only: one slice per outcome class present at the site, valued with the
   number of the site's rows of that class, summing to the site's row count. *)
C4_PieSiteClassCounts ==
    (IsLaunch /\ "get_pie_chart" \notin pending
        /\ layout["site-dropdown"].value # "ALL") =>
        LET S == RowIdx("Launch Site", layout["site-dropdown"].value)
        IN  /\ DOMAIN pie_figure.data = {ToString(df[i]["class"]) : i \in S}
            /\ \A c \in {0, 1} :
                    S \cap RowIdx("class", c) # {} =>
                        pie_figure.data[ToString(c)] =
                            Cardinality(S \cap RowIdx("class", c))
            /\ RefTotal(pie_figure.data) = Cardinality(S)

C4_Witness ==
    /\ IsLaunch
    /\ "get_pie_chart" \notin pending
    /\ layout["site-dropdown"].value = "KSC LC-39A"
    /\ RowIdx("Launch Site", "KSC LC-39A") # {}
    /\ RowIdx("Launch Site", "CCAFS LC-40") # {}
    /\ RefTotal(pie_figure.data) = 1

(* C5: the rows plotted by get_scatter_chart are exactly the rows of the
   dataset with lo <= PayloadMass <= hi, both bounds inclusive, restricted to
   the selected site unless the site is 'ALL'. *)
C5_ScatterSubset ==
    (IsLaunch /\ "get_scatter_chart" \notin pending) =>
        LET lo == layout["payload-slider"].value[1]
            hi == layout["payload-slider"].value[2]
            site == layout["site-dropdown"].value
            Plotted(r) == /\ lo <= r["PayloadMass"]
                          /\ r["PayloadMass"] <= hi
                          /\ (site # "ALL" => r["Launch Site"] = site)
        IN  /\ \A i \in DOMAIN df :
                  Occurrences(scatter_figure.data, df[i]) =
                      IF Plotted(df[i]) THEN Occurrences(df, df[i]) ELSE 0
            /\ \A j \in DOMAIN scatter_figure.data :
                  Occurrences(df, scatter_figure.data[j]) > 0

C5_Witness ==
    /\ IsLaunch
    /\ "get_scatter_chart" \notin pending
    /\ layout["site-dropdown"].value = "CCAFS LC-40"
    /\ layout["payload-slider"].value = <<0, 3000>>
    /\ Len(scatter_figure.data) = 2
    /\ scatter_figure.data[1]["PayloadMass"] # scatter_figure.data[2]["PayloadMass"]

(* C6 as stated: the bounds of the payload range slider are the dataset's
   minimum and maximum PayloadMass, with step 1000. *)
C6_SliderBoundsAreDatasetMinMax ==
    IsLaunch =>
        /\ layout["payload-slider"].min = min_payload(df)
        /\ layout["payload-slider"].max = max_payload(df)
        /\ layout["payload-slider"].step = 1000

(* C6 amended: the bounds of the payload range slider are the fixed values 0
   and 10000 with step 1000; the dataset's minimum and maximum PayloadMass
   are the slider's initial selected value, not its bounds. *)
C6_SliderBoundsFixed ==
    IsLaunch =>
        /\ layout["payload-slider"].min = 0
        /\ layout["payload-slider"].max = 10000
        /\ layout["payload-slider"].step = 1000
        /\ layout = LaunchLayout(df) =>
                layout["payload-slider"].value = <<min_payload(df), max_payload(df)>>

C6_Witness ==
    /\ IsLaunch
    /\ layout["payload-slider"].value = <<min_payload(df), max_payload(df)>>
    /\ min_payload(df) = 2500
    /\ max_payload(df) = 9600

(* C7: a step of get_pie_chart or get_scatter_chart leaves every property of
   the payload slider (min, max, step, value) and of the site dropdown
   unchanged and writes nothing but the figure of its own chart. *)
C7_CallbacksLeaveControlsAlone ==
    [][(Callback_get_pie_chart \/ Callback_get_scatter_chart) =>
            /\ layout'["payload-slider"] = layout["payload-slider"]
            /\ layout'["site-dropdown"] = layout["site-dropdown"]
            /\ DOMAIN layout' = DOMAIN layout
            /\ (Callback_get_pie_chart =>
                    layout'["success-payload-scatter-chart"] =
                        layout["success-payload-scatter-chart"])
            /\ (Callback_get_scatter_chart =>
                    layout'["success-pie-chart"] = layout["success-pie-chart"])
      ]_vars

C7_Witness ==
    /\ IsLaunch
    /\ pending = {}
    /\ layout["site-dropdown"].value = "VAFB SLC-4E"
    /\ layout["payload-slider"].value = <<3000, 10000>>
    /\ layout["payload-slider"].min = 0
    /\ layout["payload-slider"].max = 10000
    /\ pie_figure # NoFigure
    /\ scatter_figure # NoFigure

(* C8: no step writes the dataset, and whenever a callback has run for the
   current inputs its output is the value determined by the dataset and the
   current input values alone. *)
C8_OutputsDetermined ==
    /\ (IsSales /\ "update_year_dropdown" \notin pending) =>
            layout["year-dropdown"].disabled =
                update_year_dropdown(layout["report-type"].value)
    /\ (IsSales /\ "update_output" \notin pending) =>
            children = update_output(YearFilter(csv), layout["report-type"].value,
                                     layout["year-dropdown"].value)
    /\ (IsLaunch /\ "get_pie_chart" \notin pending) =>
            pie_figure = get_pie_chart(Rename(csv), layout["site-dropdown"].value)
    /\ (IsLaunch /\ "get_scatter_chart" \notin pending) =>
            scatter_figure =
                get_scatter_chart(Rename(csv), layout["site-dropdown"].value,
                                  layout["payload-slider"].value)

C8_DatasetNeverWritten ==
    /\ []C8_OutputsDetermined
    /\ [][df' = df /\ csv' = csv]_vars

C8_Witness ==
    /\ IsSales
    /\ pending = {}
    /\ layout["report-type"].value = None
    /\ layout["year-dropdown"].value = {2013}
    /\ Len(df) = MaxSalesRows
    /\ Len(children) = 4

(* C9: every row of the sales dataset has 1980 <= Year <= 2013, the dataset
   holds exactly the rows of the CSV payload inside that range, and every
   year the dropdown offers and every Year group of the first chart lies in
   [1980, 2013]. *)
C9_YearsInRange ==
    IsSales =>
        /\ \A i \in DOMAIN df : 1980 <= df[i].Year /\ df[i].Year <= 2013
        /\ \A i \in DOMAIN csv :
              Occurrences(df, csv[i]) =
                  IF 1980 <= csv[i].Year /\ csv[i].Year <= 2013
                  THEN Occurrences(csv, csv[i]) ELSE 0
        /\ \A i \in DOMAIN layout["year-dropdown"].options :
              LET y == layout["year-dropdown"].options[i].value
              IN  /\ 1980 <= y /\ y <= 2013
                  /\ \E j \in DOMAIN df : df[j].Year = y
        /\ \A i \in DOMAIN df :
              \E j \in DOMAIN layout["year-dropdown"].options :
                  layout["year-dropdown"].options[j].value = df[i].Year
        /\ children # <<>> =>
              \A y \in DOMAIN children[1].data : 1980 <= y /\ y <= 2013

C9_Witness ==
    /\ IsSales
    /\ \E i \in DOMAIN csv : csv[i].Year = 1979 \/ csv[i].Year = 2014
    /\ \E i \in DOMAIN df : df[i].Year = 1980 \/ df[i].Year = 2013
    /\ Len(df) < Len(csv)
    /\ Len(children) = 4
    /\ DOMAIN children[1].data # {}

(* C10: with report type 'yearly' and selected year y, the first chart is the
   mean of Automobile_Sales per Year over all rows of the dataset (whatever y
   is), the second the sum of Automobile_Sales per Month over the rows with
   Year = y, the third the mean of Automobile_Sales per Vehicle_Type over the
   rows with Year = y, the fourth the sum of Advertising_Expenditure per
   Vehicle_Type over the rows with Year = y. *)
C10_YearlyAggregations ==
    (IsSales /\ "update_output" \notin pending
        /\ layout["report-type"].value = "yearly") =>
        LET Y == {i \in DOMAIN df : df[i].Year \in layout["year-dropdown"].value}
        IN  /\ Len(children) = 4
            /\ IsMeanBy(children[1].data, DOMAIN df, "Year", "Automobile_Sales")
            /\ IsSumBy(children[2].data, Y, "Month", "Automobile_Sales")
            /\ IsMeanBy(children[3].data, Y, "Vehicle_Type", "Automobile_Sales")
            /\ IsSumBy(children[4].data, Y, "Vehicle_Type",
                       "Advertising_Expenditure")

C10_Witness ==
    /\ IsSales
    /\ "update_output" \notin pending
    /\ layout["report-type"].value = "yearly"
    /\ layout["year-dropdown"].value = {2013}
    /\ \E i, j \in DOMAIN df : df[i].Year = 1980 /\ df[j].Year = 2013
    /\ Len(children) = 4
    /\ DOMAIN children[2].data = {"Jan"}
====
